---- MODULE Spec2Model ----
(***************************************************************************)
(* Model of cortex-search-engine:                                          *)
(*   src/search_engine/config.py    SearchConfig                           *)
(*   src/search_engine/client.py    SearXNGClient                          *)
(*   src/search_engine/models.py    SearchResult, SearchResponse           *)
(*   src/search_engine/manager.py   SearchEngineManager                    *)
(*   src/services/openai/client.py  OpenAISearchService                    *)
(*   src/services/openai/main.py    the HTTP endpoints around it           *)
(*                                                                         *)
(* Python strings the code inspects (startswith, strip, join) are          *)
(* sequences of one-character strings; a dict is a function from its keys. *)
(* A JSON value of unknown type is a record [k, s] tagged with its kind.   *)
(* A call either returns or raises: its outcome carries kind "returned" or *)
(* "raised", and an exception is its class name and its message.           *)
(* SearchResponse.search_time (wall-clock seconds) is not modelled.        *)
(***************************************************************************)
EXTENDS Integers, Sequences, FiniteSets, TLC

VARIABLES
    args,      \* the arguments given to SearchConfig(...)
    config,    \* the outcome of that construction (validated config or error)
    session,   \* the client's requests.Session: "none", "open", "closed"
    nreq,      \* number of HTTP GETs the session has issued
    call,      \* the caller's view of the last call: its inputs and outcome
    service,   \* openai_service of the HTTP wrapper: "unstarted", "none",
               \* "ready"
    invocation \* the last invocation of the enhancement service or of an
               \* endpoint of its wrapper: its inputs and outcome

vars == <<args, config, session, nreq, call, service, invocation>>

----------------------------------------------------------------------------
(* Bounds of the model *)

MaxBatch == 2       \* longest upstream "results" array
MaxResults == 2     \* largest max_results of a configuration
MaxRequests == 1    \* HTTP requests one client issues

----------------------------------------------------------------------------
(* Strings *)

HTTP == <<"h", "t", "t", "p", ":", "/", "/">>
HTTPS == <<"h", "t", "t", "p", "s", ":", "/", "/">>
FTP == <<"f", "t", "p", ":", "/", "/">>

Whitespace == {" ", "\t", "\n"}

\* str.startswith(prefix)
StartsWith(s, p) == Len(s) >= Len(p) /\ SubSeq(s, 1, Len(p)) = p

\* str.startswith(('http://', 'https://'))
StartsWithHttp(s) == StartsWith(s, HTTP) \/ StartsWith(s, HTTPS)

RECURSIVE LStrip(_)
LStrip(s) ==
    IF s # <<>> /\ Head(s) \in Whitespace THEN LStrip(Tail(s)) ELSE s

RECURSIVE RStrip(_)
RStrip(s) ==
    IF s # <<>> /\ s[Len(s)] \in Whitespace
    THEN RStrip(SubSeq(s, 1, Len(s) - 1))
    ELSE s

\* str.strip()
Strip(s) == RStrip(LStrip(s))

\* seq[:n]
Take(seq, n) == SubSeq(seq, 1, IF n < Len(seq) THEN n ELSE Len(seq))

RECURSIVE Join(_, _)
\* sep.join(list)
Join(sep, list) ==
    IF list = <<>> THEN <<>>
    ELSE IF Len(list) = 1 THEN list[1]
    ELSE list[1] \o sep \o Join(sep, Tail(list))

\* parts of a formatted message: a literal, an interpolated number, an
\* interpolated string
Lit(s) == [k |-> "lit", lit |-> s, chars |-> <<>>, num |-> 0]
Num(n) == [k |-> "num", lit |-> "", chars |-> <<>>, num |-> n]
Txt(cs) == [k |-> "chars", lit |-> "", chars |-> cs, num |-> 0]

Exception(type, msg) == [type |-> type, msg |-> msg]
NoException == Exception("", <<>>)

----------------------------------------------------------------------------
(* SearchConfig *)

DefaultCategories == <<<<"g", "e", "n", "e", "r", "a", "l">>>>
DefaultLanguage == <<"e", "n">>
DefaultTimeout == 30

BaseUrls ==
    { HTTP \o <<"h">>, HTTPS \o <<"h">>, FTP \o <<"h">>, <<"h">>,
      <<"h", "t", "t", "p">>, <<>> }
Timeouts == {-1, 0, DefaultTimeout}
MaxResultsValues == -1 .. MaxResults
SafeSearchValues == -1 .. 3

\* the keyword arguments of SearchConfig(...); the other fields take their
\* defaults
ConfigArgs ==
    [base_url : BaseUrls, timeout : Timeouts, max_results : MaxResultsValues,
     safe_search : SafeSearchValues]

\* the dataclass fields after __init__, before __post_init__
Fields(a) ==
    [base_url |-> a.base_url, timeout |-> a.timeout,
     max_results |-> a.max_results, language |-> DefaultLanguage,
     safe_search |-> a.safe_search, time_range |-> <<>>,
     categories |-> DefaultCategories, engines |-> <<>>]

NoFields ==
    [base_url |-> <<>>, timeout |-> 0, max_results |-> 0, language |-> <<>>,
     safe_search |-> 0, time_range |-> <<>>, categories |-> <<>>,
     engines |-> <<>>]

Unbuilt == [state |-> "unbuilt", exc |-> NoException, cfg |-> NoFields]
Built(c) == [state |-> "built", exc |-> NoException, cfg |-> c]
Failed(e) == [state |-> "failed", exc |-> e, cfg |-> NoFields]

PostInitNoSafeSearchCheck(c) ==
    IF ~StartsWithHttp(c.base_url)
    THEN Failed(Exception("ValueError",
             <<Lit("Base URL must start with http:// or https://")>>))
    ELSE IF c.timeout <= 0
    THEN Failed(Exception("ValueError", <<Lit("Timeout must be positive")>>))
    ELSE IF c.max_results <= 0
    THEN Failed(Exception("ValueError",
             <<Lit("Max results must be positive")>>))
    ELSE Built(c)

\* SearchConfig.__post_init__
PostInit(c) ==
    IF ~StartsWithHttp(c.base_url)
    THEN Failed(Exception("ValueError",
             <<Lit("Base URL must start with http:// or https://")>>))
    ELSE IF c.timeout <= 0
    THEN Failed(Exception("ValueError", <<Lit("Timeout must be positive")>>))
    ELSE IF c.max_results <= 0
    THEN Failed(Exception("ValueError",
             <<Lit("Max results must be positive")>>))
    ELSE IF c.safe_search \notin {0, 1, 2}
    THEN Failed(Exception("ValueError",
             <<Lit("Safe search must be 0, 1, or 2")>>))
    ELSE Built(c)

----------------------------------------------------------------------------
(* The search backend's answers *)

\* a JSON value in a field of a result item: absent, null, a string, or a
\* non-zero number
JMissing == [k |-> "missing", s |-> <<>>]
JNull == [k |-> "null", s |-> <<>>]
JStr(cs) == [k |-> "str", s |-> cs]
JNum == [k |-> "num", s |-> <<>>]

\* the "engines" field of a result item: absent, null, or a list of names
EMissing == [k |-> "missing", l |-> <<>>]
ENull == [k |-> "null", l |-> <<>>]
EList(names) == [k |-> "list", l |-> names]

\* an element of the upstream "results" array: a JSON object, or not one
Obj(title, url, engines) ==
    [obj |-> TRUE, title |-> title, url |-> url, content |-> JMissing,
     engines |-> engines, category |-> JMissing, publishedDate |-> JMissing]
NotAnObject ==
    [obj |-> FALSE, title |-> JMissing, url |-> JMissing, content |-> JMissing,
     engines |-> EMissing, category |-> JMissing, publishedDate |-> JMissing]

Items ==
    { Obj(JStr(<<"A">>), JStr(HTTP \o <<"a">>), EList(<<"google">>)),
      Obj(JStr(<<"B">>), JStr(HTTPS \o <<"b">>), EList(<<"bing", "google">>)),
      Obj(JStr(<<"F">>), JStr(FTP \o <<"f">>), EList(<<"ddg">>)),
      Obj(JStr(<<"E">>), JStr(<<>>), EList(<<"brave">>)),
      Obj(JMissing, JMissing, EMissing),
      Obj(JStr(<<"N">>), JStr(HTTP \o <<"n">>), ENull),
      Obj(JStr(<<"U">>), JNum, EList(<<"bing">>)),
      NotAnObject }

Batches == UNION { [1 .. n -> Items] : n \in 0 .. MaxBatch }

\* the "results" member of the JSON document: absent, null, or an array
RMissing == [k |-> "missing", l |-> <<>>]
RNull == [k |-> "null", l |-> <<>>]
RList(items) == [k |-> "list", l |-> items]

\* the JSON document of a response body: an object, or an array/null/scalar
JsonObject(results, suggestions) ==
    [k |-> "object", results |-> results, suggestions |-> suggestions]
JsonArray == [k |-> "array", results |-> RMissing, suggestions |-> <<>>]

Suggestion == <<"a", "i">>

Docs ==
    { JsonObject(RList(b), <<>>) : b \in Batches }
    \cup { JsonObject(RMissing, <<>>), JsonObject(RNull, <<>>),
           JsonObject(RList(<<>>), <<Suggestion>>), JsonArray }

\* response.text: empty, whitespace only, not JSON, or a JSON document
Body(k, doc) == [k |-> k, doc |-> doc]
BodyEmpty == Body("empty", JsonArray)
BodyBlank == Body("blank", JsonArray)
BodyInvalid == Body("invalid", JsonArray)
BodyJson(doc) == Body("json", doc)

\* what session.get does: raises a requests exception, or returns a response
Transport(exc) == [exc |-> exc, status |-> 0, body |-> BodyEmpty]
Http(status, body) == [exc |-> "", status |-> status, body |-> body]

TransportErrors ==
    {"ReadTimeout", "ConnectTimeout", "ConnectionError", "TooManyRedirects"}

\* the classes of requests.exceptions each transport error is an instance of
Classes(exc) ==
    CASE exc = "ReadTimeout" -> {"Timeout", "RequestException"}
      [] exc = "ConnectTimeout" ->
            {"Timeout", "ConnectionError", "RequestException"}
      [] exc = "ConnectionError" -> {"ConnectionError", "RequestException"}
      [] OTHER -> {"RequestException"}

Statuses == {200, 300, 403, 404, 429, 500}

\* every document with status 200, and a few bodies with every status
Replies ==
    { Transport(e) : e \in TransportErrors }
    \cup { Http(200, BodyJson(d)) : d \in Docs }
    \cup { Http(s, b) : s \in Statuses,
                        b \in {BodyEmpty, BodyBlank, BodyInvalid,
                               BodyJson(JsonArray),
                               BodyJson(JsonObject(RList(<<>>), <<>>))} }

----------------------------------------------------------------------------
(* Outcomes of calls *)

NoResponse ==
    [query |-> <<>>, results |-> <<>>, total_results |-> 0,
     engines_used |-> <<>>, suggestions |-> <<>>]

\* the dict get_health_status returns; response_time (a wall-clock reading)
\* is present or absent
NoHealth ==
    [status |-> "", url |-> <<>>, response_time |-> FALSE,
     config |-> JsonArray, error |-> <<>>]

\* a dict; the one with no key is EmptyDict
EmptyDict == [key \in {} |-> Lit("")]

\* a call returned value v / raised exception e, having issued `gets` GETs;
\* params are the query parameters of the GET, health a health report,
\* simplified the list of dicts a SearchManager helper returns
Returned(v, gets) ==
    [kind |-> "returned", exc |-> NoException, response |-> v, gets |-> gets,
     params |-> EmptyDict, health |-> NoHealth, simplified |-> <<>>]
Raised(e, gets) ==
    [kind |-> "raised", exc |-> e, response |-> NoResponse, gets |-> gets,
     params |-> EmptyDict, health |-> NoHealth, simplified |-> <<>>]

\* a request that is issued again once after a failure
AfterRequestRetried(o, params) ==
    [o EXCEPT !.gets = IF o.kind = "raised" THEN 2 ELSE 1, !.params = params]

\* the same outcome, reached after one GET that carried `params`
AfterRequest(o, params) == [o EXCEPT !.gets = 1, !.params = params]

----------------------------------------------------------------------------
(* SearXNGClient._build_search_params *)

\* a dict.update that keeps the entries the dict already holds
UpdateKeepsOld(d, other) ==
    [key \in DOMAIN d \cup DOMAIN other |->
        IF key \in DOMAIN d THEN d[key] ELSE other[key]]

\* dict.update
Update(d, other) ==
    [key \in DOMAIN d \cup DOMAIN other |->
        IF key \in DOMAIN other THEN other[key] ELSE d[key]]

\* a dict literal of one entry
Entry(key, value) == [x \in {key} |-> value]

BuildSearchParams(cfg, query, kwargs) ==
    LET base == [key \in {"q", "format", "language", "safesearch"} |->
                    CASE key = "q" -> Txt(query)
                      [] key = "format" -> Txt(<<"j", "s", "o", "n">>)
                      [] key = "language" -> Txt(cfg.language)
                      [] OTHER -> Num(cfg.safe_search)]
        p1 == IF cfg.time_range # <<>>
              THEN Update(base, Entry("time_range", Txt(cfg.time_range)))
              ELSE base
        p2 == IF cfg.categories # <<>>
              THEN Update(p1, Entry("categories",
                                    Txt(Join(<<",">>, cfg.categories))))
              ELSE p1
        p3 == IF cfg.engines # <<>>
              THEN Update(p2, Entry("engines", Txt(Join(<<",">>, cfg.engines))))
              ELSE p2
    IN  Update(p3, kwargs)

----------------------------------------------------------------------------
(* SearXNGClient._make_request *)

\* str(e) of the HTTPError raised by response.raise_for_status()
HTTPErrorText(cfg, status) ==
    <<Num(status),
      Lit(IF status < 500 THEN " Client Error: " ELSE " Server Error: "),
      Lit("for url: "), Txt(cfg.base_url), Lit("/search")>>

\* response.raise_for_status() raises HTTPError
RaisesForStatus(status) == 400 <= status /\ status < 600

\* the outcome of _make_request: the parsed JSON document, or an exception
Data(doc) == [kind |-> "returned", exc |-> NoException, data |-> doc]
RequestFailed(e) == [kind |-> "raised", exc |-> e, data |-> JsonArray]

MakeRequestStatusIgnored(cfg, params, reply) ==
    IF reply.body.k \in {"empty", "blank"}
    THEN RequestFailed(Exception("APIError",
             <<Lit("Empty response from SearXNG")>>))
    ELSE IF reply.body.k = "invalid"
    THEN RequestFailed(Exception("APIError",
             <<Lit("Invalid JSON response from SearXNG: "),
               Lit("Expecting value")>>))
    ELSE Data(reply.body.doc)

MakeRequest(cfg, params, reply) ==
    IF reply.exc # ""
    THEN \* session.get raised
         IF "Timeout" \in Classes(reply.exc)
         THEN RequestFailed(Exception("NetworkError",
                  <<Lit("Request to SearXNG timed out")>>))
         ELSE IF "ConnectionError" \in Classes(reply.exc)
         THEN RequestFailed(Exception("NetworkError",
                  <<Lit("Cannot connect to SearXNG at "), Txt(cfg.base_url)>>))
         ELSE RequestFailed(Exception(reply.exc, <<Lit(reply.exc)>>))
    ELSE IF RaisesForStatus(reply.status)
    THEN IF reply.status = 403
         THEN RequestFailed(Exception("APIError",
                  <<Lit("Access forbidden - check if JSON format is enabled")>>))
         ELSE IF reply.status = 429
         THEN RequestFailed(Exception("APIError",
                  <<Lit("Rate limit exceeded - try again later")>>))
         ELSE RequestFailed(Exception("NetworkError",
                  <<Lit("HTTP "), Num(reply.status), Lit(": ")>>
                  \o HTTPErrorText(cfg, reply.status)))
    ELSE IF reply.body.k \in {"empty", "blank"}
    THEN RequestFailed(Exception("APIError",
             <<Lit("Empty response from SearXNG")>>))
    ELSE IF reply.body.k = "invalid"
    THEN RequestFailed(Exception("APIError",
             <<Lit("Invalid JSON response from SearXNG: "),
               Lit("Expecting value")>>))
    ELSE Data(reply.body.doc)

----------------------------------------------------------------------------
(* SearXNGClient._parse_results *)

NoTitle == <<"N", "o", " ", "t", "i", "t", "l", "e">>
General == <<"g", "e", "n", "e", "r", "a", "l">>

\* dict.get(key, default) on a field of an item
Get(field, default) == IF field.k = "missing" THEN default ELSE field

\* bool(url)
Truthy(v) == (v.k = "str" /\ v.s # <<>>) \/ v.k = "num"

SearchResult(item, url) ==
    [title |-> Get(item.title, JStr(NoTitle)),
     url |-> url,
     content |-> Get(item.content, JStr(<<>>)),
     engines |-> IF item.engines.k = "missing" THEN EList(<<>>)
                 ELSE item.engines,
     category |-> Get(item.category, JStr(General)),
     publishedDate |-> Get(item.publishedDate, JNull)]

\* the body of the loop for one item: the SearchResult appended, if any.
\* item.get on a non-object and url.startswith on a number raise
\* AttributeError, which the loop's except clause turns into a skip.
ParseItem(item) ==
    IF ~item.obj THEN <<>>
    ELSE LET url == Get(item.url, JStr(<<>>))
         IN  IF Truthy(url) /\ (url.k # "str" \/ ~StartsWithHttp(url.s))
             THEN <<>>
             ELSE <<SearchResult(item, url)>>

RECURSIVE ParseItems(_)
ParseItems(items) ==
    IF items = <<>> THEN <<>>
    ELSE ParseItem(Head(items)) \o ParseItems(Tail(items))

\* the items the loop iterates: data.get('results', [])[:max_results]
LoopItems(cfg, data) == Take(data.results.l, cfg.max_results)

\* the elements of set(engine for result in results for engine in
\* result.engines)
EngineSet(results) ==
    UNION { { results[i].engines.l[j] : j \in 1 .. Len(results[i].engines.l) }
            : i \in 1 .. Len(results) }

\* list(set(...)): the set's elements, each once, in an order the code does
\* not fix
Listings(S) ==
    { l \in [1 .. Cardinality(S) -> S] :
        \A i, j \in 1 .. Cardinality(S) : l[i] = l[j] => i = j }

SearchResponse(query, results, total_results, engines_used, suggestions) ==
    [query |-> query, results |-> results, total_results |-> total_results,
     engines_used |-> engines_used, suggestions |-> suggestions]

TotalResultsFromUpstream(cfg, data, results) == Len(data.results.l)

TotalResults(cfg, data, results) == Len(results)

EnginesOfAllItems(cfg, data, results) ==
    EngineSet(ParseItems(data.results.l))

EnginesUsed(cfg, data, results) == EngineSet(results)

\* the outcomes of _parse_results, one for each listing of the engine set
ParseResults(cfg, data, query) ==
    IF data.k # "object"
    THEN {Raised(Exception("AttributeError",
              <<Lit("object has no attribute 'get'")>>), 0)}
    ELSE IF data.results.k = "null"
    THEN {Raised(Exception("TypeError",
              <<Lit("'NoneType' object is not subscriptable")>>), 0)}
    ELSE LET results == ParseItems(LoopItems(cfg, data))
         IN  IF \E i \in 1 .. Len(results) : results[i].engines.k = "null"
             THEN {Raised(Exception("TypeError",
                       <<Lit("'NoneType' object is not iterable")>>), 0)}
             ELSE { Returned(SearchResponse(query, results,
                                 TotalResults(cfg, data, results), eu,
                                 data.suggestions), 0)
                    : eu \in Listings(EnginesUsed(cfg, data, results)) }

----------------------------------------------------------------------------
(* SearXNGClient.search, search_news *)

EmptyQueryError ==
    Exception("ValueError", <<Lit("Search query cannot be empty")>>)

\* `not query or not query.strip()`
IsBlankUnstripped(query) == query = <<>>

IsBlank(query) == query = <<>> \/ Strip(query) = <<>>

\* the outcomes of search(query, **kwargs) when session.get behaves as `reply`
Search(cfg, query, kwargs, reply) ==
    IF IsBlank(query)
    THEN {Raised(EmptyQueryError, 0)}
    ELSE LET params == BuildSearchParams(cfg, Strip(query), kwargs)
             r == MakeRequest(cfg, params, reply)
         IN  IF r.kind = "raised"
             THEN {AfterRequest(Raised(r.exc, 0), params)}
             ELSE { AfterRequest(o, params) :
                        o \in ParseResults(cfg, r.data, query) }

Year == <<"y", "e", "a", "r">>
News == <<"n", "e", "w", "s">>

\* the keyword arguments search_news hands to search
NewsParams(kwargs) ==
    LET time_range == IF "time_range" \in DOMAIN kwargs
                      THEN kwargs["time_range"] ELSE Txt(Year)
        rest == [key \in DOMAIN kwargs \ {"time_range"} |-> kwargs[key]]
        news_params == [key \in {"categories", "time_range"} |->
                           IF key = "categories" THEN Txt(News)
                           ELSE time_range]
    IN  Update(news_params, rest)

SearchNews(cfg, query, kwargs, reply) ==
    Search(cfg, query, NewsParams(kwargs), reply)

----------------------------------------------------------------------------
(* SearXNGClient.get_health_status *)

\* str(e) of the HTTPError raise_for_status raises for GET {base_url}/config
HealthErrorText(cfg, status) ==
    <<Num(status),
      Lit(IF status < 500 THEN " Client Error: " ELSE " Server Error: "),
      Lit("for url: "), Txt(cfg.base_url), Lit("/config")>>

\* a get_health_status without its except clause
HealthReportUncaught(cfg, error) ==
    Raised(Exception("RequestException", error), 1)

\* `except Exception as e`: the failure becomes the 'unhealthy' report
HealthReport(cfg, error) ==
    [Returned(NoResponse, 1) EXCEPT
        !.health = [status |-> "unhealthy", url |-> cfg.base_url,
                    response_time |-> FALSE, config |-> JsonArray,
                    error |-> error]]

\* the outcome of get_health_status() when session.get behaves as `reply`
GetHealthStatus(cfg, reply) ==
    IF reply.exc # ""
    THEN HealthReport(cfg, <<Lit(reply.exc)>>)
    ELSE IF RaisesForStatus(reply.status)
    THEN HealthReport(cfg, HealthErrorText(cfg, reply.status))
    ELSE IF reply.body.k # "json"
    THEN HealthReport(cfg, <<Lit("Expecting value")>>)
    ELSE [Returned(NoResponse, 1) EXCEPT
             !.health = [status |-> "healthy", url |-> cfg.base_url,
                         response_time |-> TRUE, config |-> reply.body.doc,
                         error |-> <<>>]]

----------------------------------------------------------------------------
(* Strings of the enhancement service *)

\* the lower-case form of each upper-case letter
ToLower ==
    ("A" :> "a") @@
    ("B" :> "b") @@
    ("C" :> "c") @@
    ("D" :> "d") @@
    ("E" :> "e") @@
    ("F" :> "f") @@
    ("G" :> "g") @@
    ("H" :> "h") @@
    ("I" :> "i") @@
    ("J" :> "j") @@
    ("K" :> "k") @@
    ("L" :> "l") @@
    ("M" :> "m") @@
    ("N" :> "n") @@
    ("O" :> "o") @@
    ("P" :> "p") @@
    ("Q" :> "q") @@
    ("R" :> "r") @@
    ("S" :> "s") @@
    ("T" :> "t") @@
    ("U" :> "u") @@
    ("V" :> "v") @@
    ("W" :> "w") @@
    ("X" :> "x") @@
    ("Y" :> "y") @@
    ("Z" :> "z")

\* str.lower()
Lower(s) ==
    [i \in 1 .. Len(s) |->
        IF s[i] \in DOMAIN ToLower THEN ToLower[s[i]] ELSE s[i]]

\* `sub in s`
Contains(s, sub) ==
    \E i \in 0 .. Len(s) - Len(sub) : SubSeq(s, i + 1, i + Len(sub)) = sub

\* the index of the first character of s that is in chars, 0 if none
RECURSIVE FirstIn(_, _, _)
FirstIn(s, chars, i) ==
    IF i > Len(s) THEN 0
    ELSE IF s[i] \in chars THEN i
    ELSE FirstIn(s, chars, i + 1)

\* str.split(sep) for a one-character sep: empty pieces are kept
RECURSIVE SplitOn(_, _)
SplitOn(s, sep) ==
    LET i == FirstIn(s, {sep}, 1)
    IN  IF i = 0 THEN <<s>>
        ELSE <<SubSeq(s, 1, i - 1)>> \o SplitOn(SubSeq(s, i + 1, Len(s)), sep)

\* str.split(): pieces between runs of whitespace, none empty
RECURSIVE Split(_)
Split(s) ==
    LET t == LStrip(s)
        i == FirstIn(t, Whitespace, 1)
    IN  IF t = <<>> THEN <<>>
        ELSE IF i = 0 THEN <<t>>
        ELSE <<SubSeq(t, 1, i - 1)>> \o Split(SubSeq(t, i + 1, Len(t)))

\* str.strip(chars)
RECURSIVE StripChars(_, _)
StripChars(s, chars) ==
    IF s # <<>> /\ Head(s) \in chars THEN StripChars(Tail(s), chars)
    ELSE IF s # <<>> /\ s[Len(s)] \in chars
    THEN StripChars(SubSeq(s, 1, Len(s) - 1), chars)
    ELSE s

\* a float that is a ratio of two integers
Rat(num, den) == [num |-> num, den |-> den]

----------------------------------------------------------------------------
(* The model backend of the enhancement service: chat.completions.create *)

\* tool_call.function.arguments: not JSON, a JSON array, or a JSON object
\* whose member read by the handler ("query", "original_query") is q
ArgsInvalid == [k |-> "invalid", q |-> JMissing]
ArgsArray == [k |-> "array", q |-> JMissing]
ArgsObject(q) == [k |-> "object", q |-> q]
ToolCall(name, arguments) == [name |-> name, arguments |-> arguments]

\* a completion call raises, or returns a message with tool calls (None and
\* the empty list are both falsy) and a content (None or a string)
CompletionFails == [k |-> "raise", tool_calls |-> <<>>, content |-> JNull]
Message(tool_calls) ==
    [k |-> "message", tool_calls |-> tool_calls, content |-> JNull]
TextMessage(content) ==
    [k |-> "message", tool_calls |-> <<>>, content |-> content]

\* how the backend behaves during one invocation: its reply to the primary
\* call, the contents it returns to summary and key-point calls, and the
\* secondary call that raises (0: none)
Backend(primary, summary, points, failAt) ==
    [primary |-> primary, summary |-> summary, points |-> points,
     failAt |-> failAt]

----------------------------------------------------------------------------
(* OpenAISearchService.enhance_search_results and its helpers *)

AnalysisLimit == 5
BasicSummaryLength == 200
DefaultSummaryLength == 100
DefaultKeyPointLength == 50
MaxKeyPoints == 3

\* AIEnhancedResult
AIEnhancedResult(result, ai_summary, relevance_score, key_points) ==
    [original_result |-> result, ai_summary |-> ai_summary,
     relevance_score |-> relevance_score, key_points |-> key_points,
     sentiment |-> "neutral"]

NoIntent ==
    [query |-> <<>>, intent_type |-> "", category |-> "", urgency |-> "",
     confidence |-> Rat(0, 1)]

\* the outcome of a service method: the value it returned or the exception
\* it raised, and the number of completion calls it issued
ServiceOutcome(kind, exc, completions) ==
    [kind |-> kind, exc |-> exc, enhanced |-> <<>>, suggestions |-> <<>>,
     intent |-> NoIntent, completions |-> completions, status |-> 0,
     detail |-> <<>>]

\* a _generate_summary whose except clause returns the content whole
GenerateSummaryWholeOnFailure(content, reply) ==
    IF reply.k = "raise" \/ reply.content.k # "str" THEN content
    ELSE Strip(reply.content.s)

\* _generate_summary: message.content.strip(); any exception (the call
\* raised, content is None) gives content[:100] + "..."
GenerateSummary(content, reply) ==
    IF reply.k = "raise" \/ reply.content.k # "str"
    THEN Take(content, DefaultSummaryLength) \o <<".", ".", ".">>
    ELSE Strip(reply.content.s)

\* [point.strip('- ').strip() for point in points if point.strip()]
RECURSIVE KeyPointsOf(_)
KeyPointsOf(points) ==
    IF points = <<>> THEN <<>>
    ELSE IF Strip(Head(points)) # <<>>
    THEN <<Strip(StripChars(Head(points), {"-", " "}))>>
         \o KeyPointsOf(Tail(points))
    ELSE KeyPointsOf(Tail(points))

\* _extract_key_points
ExtractKeyPoints(content, reply) ==
    IF reply.k = "raise" \/ reply.content.k # "str"
    THEN <<Take(content, DefaultKeyPointLength) \o <<".", ".", ".">>>>
    ELSE Take(KeyPointsOf(SplitOn(Strip(reply.content.s), "\n")),
              MaxKeyPoints)

\* sum(1 for word in words if word in text)
Matches(words, text) ==
    Cardinality({i \in 1 .. Len(words) : Contains(text, words[i])})

\* a score that compares the query words with the text as written
CalculateRelevanceScoreCaseSensitive(result, query) ==
    LET query_words == Split(query)
        n == Len(query_words)
        sum == 6 * Matches(query_words, result.title)
               + 4 * Matches(query_words, result.content)
    IN  IF n = 0 THEN Rat(1, 2) ELSE Rat(sum, 10 * n)

\* _calculate_relevance_score, in exact arithmetic: with no query word the
\* division raises ZeroDivisionError and the except clause returns 0.5
CalculateRelevanceScore(result, query) ==
    LET query_words == Split(Lower(query))
        n == Len(query_words)
        title_matches == Matches(query_words, Lower(result.title))
        content_matches == Matches(query_words, Lower(result.content))
        sum == 6 * title_matches + 4 * content_matches
    IN  IF n = 0 THEN Rat(1, 2)
        ELSE Rat(IF sum > 10 * n THEN 10 * n ELSE sum, 10 * n)

\* _process_search_analysis; `calls` secondary calls were issued before it,
\* and the secondary call numbered backend.failAt raises
ProcessSearchAnalysis(query, results, backend, calls) ==
    LET top == Take(results, AnalysisLimit)
        reply(n, content) == IF n = backend.failAt THEN CompletionFails
                             ELSE TextMessage(content)
    IN  [i \in 1 .. Len(top) |->
            AIEnhancedResult(
                top[i],
                GenerateSummary(top[i].content,
                    reply(calls + 2 * i - 1, backend.summary)),
                CalculateRelevanceScore(top[i], query),
                ExtractKeyPoints(top[i].content,
                    reply(calls + 2 * i, backend.points)))]

\* a basic enhancement of the first results only
CreateBasicEnhancedResultsOfTop(query, results) ==
    [i \in 1 .. Len(Take(results, AnalysisLimit)) |->
        AIEnhancedResult(results[i], results[i].content, Rat(1, 2),
                         <<results[i].title>>)]

\* _create_basic_enhanced_results
CreateBasicEnhancedResults(query, results) ==
    [i \in 1 .. Len(results) |->
        AIEnhancedResult(
            results[i],
            IF Len(results[i].content) > BasicSummaryLength
            THEN Take(results[i].content, BasicSummaryLength) \o <<".", ".", ".">>
            ELSE results[i].content,
            Rat(1, 2),
            <<results[i].title>>)]

\* an enhance_search_results whose except clause lets the exception escape
EnhanceFallbackUncaught(query, results, exc, completions) ==
    ServiceOutcome("raised", exc, completions)

\* `except Exception`: the basic results are returned
EnhanceFallback(query, results, exc, completions) ==
    [ServiceOutcome("returned", NoException, completions) EXCEPT
        !.enhanced = CreateBasicEnhancedResults(query, results)]

\* the loop over tool calls: enhanced_results after the calls so far, the
\* secondary calls issued, and the exception that ended the loop, if any
RECURSIVE AnalysisLoop(_, _, _, _, _)
AnalysisLoop(tool_calls, query, results, backend, acc) ==
    IF tool_calls = <<>> THEN acc
    ELSE LET tool_call == Head(tool_calls)
         IN  IF tool_call.name # "analyze_search_results"
             THEN AnalysisLoop(Tail(tool_calls), query, results, backend, acc)
             ELSE IF tool_call.arguments.k = "invalid"
             THEN [acc EXCEPT !.exc = Exception("JSONDecodeError",
                                             <<Lit("Expecting value")>>)]
             ELSE AnalysisLoop(Tail(tool_calls), query, results, backend,
                      [acc EXCEPT
                          !.enhanced = ProcessSearchAnalysis(
                                           query, results, backend, acc.calls),
                          !.calls = acc.calls
                                    + 2 * Len(Take(results, AnalysisLimit))])

\* enhance_search_results(query, results)
EnhanceSearchResults(query, results, backend) ==
    LET primary == backend.primary
        loop == AnalysisLoop(primary.tool_calls, query, results, backend,
                    [enhanced |-> <<>>, calls |-> 0, exc |-> NoException])
    IN  IF primary.k = "raise"
        THEN EnhanceFallback(query, results,
                 Exception("APIError", <<Lit("Connection error.")>>), 1)
        ELSE IF primary.tool_calls = <<>>
        THEN [ServiceOutcome("returned", NoException, 1) EXCEPT
                 !.enhanced = CreateBasicEnhancedResults(query, results)]
        ELSE IF loop.exc # NoException
        THEN EnhanceFallback(query, results, loop.exc, 1 + loop.calls)
        ELSE [ServiceOutcome("returned", NoException, 1 + loop.calls) EXCEPT
                 !.enhanced = loop.enhanced]

----------------------------------------------------------------------------
(* OpenAISearchService.suggest_query_improvements *)

MaxSuggestions == 5

\* _generate_query_suggestions
GenerateQuerySuggestions(query) ==
    LET quoted == IF Contains(query, <<" ">>) /\ ~Contains(query, <<"\"">>)
                  THEN << <<"\"">> \o query \o <<"\"">> >>
                  ELSE <<>>
    IN  Take(<<query>> \o quoted
             \o << query \o <<" ", "t", "u", "t", "o", "r", "i", "a", "l">>,
                   query \o <<" ", "g", "u", "i", "d", "e">>,
                   query \o <<" ", "2", "0", "2", "5">>,
                   <<"h", "o", "w", " ", "t", "o", " ">> \o query,
                   query \o <<" ", "b", "e", "s", "t", " ",
                              "p", "r", "a", "c", "t", "i", "c", "e", "s">> >>,
             MaxSuggestions)

\* the loop over tool calls: `suggestions` after the calls so far, and
\* whether a call raised (json.loads of arguments that are not JSON, .get
\* of arguments that are no object, `' ' in` an original_query that is null)
RECURSIVE SuggestionLoop(_, _, _)
SuggestionLoop(tool_calls, query, acc) ==
    IF tool_calls = <<>> THEN acc
    ELSE LET tool_call == Head(tool_calls)
             arguments == tool_call.arguments
         IN  IF tool_call.name # "suggest_query_improvements"
             THEN SuggestionLoop(Tail(tool_calls), query, acc)
             ELSE IF arguments.k # "object" \/ arguments.q.k = "null"
             THEN [acc EXCEPT !.raised = TRUE]
             ELSE SuggestionLoop(Tail(tool_calls), query,
                      [acc EXCEPT !.suggestions =
                          GenerateQuerySuggestions(
                              Get(arguments.q, JStr(query)).s)])

\* a suggest_query_improvements that returns the empty list on a failure
SuggestFallbackEmpty(query) ==
    ServiceOutcome("returned", NoException, 1)

\* `return [query]` of the except clause
SuggestFallback(query) ==
    [ServiceOutcome("returned", NoException, 1) EXCEPT
        !.suggestions = <<query>>]

\* suggest_query_improvements(query, context); context only enters the prompt
SuggestQueryImprovements(query, backend) ==
    LET primary == backend.primary
        loop == SuggestionLoop(primary.tool_calls, query,
                               [suggestions |-> <<>>, raised |-> FALSE])
    IN  IF primary.k = "raise" \/ loop.raised
        THEN SuggestFallback(query)
        ELSE [ServiceOutcome("returned", NoException, 1) EXCEPT
                 !.suggestions = IF loop.suggestions # <<>>
                                 THEN loop.suggestions ELSE <<query>>]

----------------------------------------------------------------------------
(* OpenAISearchService.extract_search_intent *)

Intent(query, intent_type, category, confidence) ==
    [query |-> query, intent_type |-> intent_type, category |-> category,
     urgency |-> "medium", confidence |-> confidence]

\* _process_intent_extraction, for arguments whose "query" is the string
\* query
ProcessIntentExtraction(query) ==
    LET q == Lower(query)
    IN  Intent(query,
            IF \E word \in
                   {<<"b", "u", "y">>,
                    <<"p", "u", "r", "c", "h", "a", "s", "e">>,
                    <<"p", "r", "i", "c", "e">>,
                    <<"c", "o", "s", "t">>} : Contains(q, word)
            THEN "transactional"
            ELSE IF \E word \in
                   {<<"h", "o", "w", " ", "t", "o">>,
                    <<"t", "u", "t", "o", "r", "i", "a", "l">>,
                    <<"g", "u", "i", "d", "e">>} : Contains(q, word)
            THEN "informational"
            ELSE IF \E word \in
                   {<<"l", "o", "g", "i", "n">>,
                    <<"w", "e", "b", "s", "i", "t", "e">>,
                    <<"o", "f", "f", "i", "c", "i", "a", "l">>} : Contains(q, word)
            THEN "navigational"
            ELSE "informational",
            IF \E word \in
                   {<<"t", "e", "c", "h">>,
                    <<"p", "r", "o", "g", "r", "a", "m", "m", "i", "n", "g">>,
                    <<"s", "o", "f", "t", "w", "a", "r", "e">>} : Contains(q, word)
            THEN "technology"
            ELSE IF \E word \in
                   {<<"h", "e", "a", "l", "t", "h">>,
                    <<"m", "e", "d", "i", "c", "a", "l">>,
                    <<"d", "o", "c", "t", "o", "r">>} : Contains(q, word)
            THEN "health"
            ELSE IF \E word \in
                   {<<"n", "e", "w", "s">>,
                    <<"c", "u", "r", "r", "e", "n", "t">>,
                    <<"l", "a", "t", "e", "s", "t">>} : Contains(q, word)
            THEN "news"
            ELSE "general",
            Rat(4, 5))

\* the loop over tool calls: intent_data after the calls so far, and whether
\* a call raised (json.loads of arguments that are not JSON, .get of
\* arguments that are no object, .lower() of a query that is null)
RECURSIVE IntentLoop(_, _)
IntentLoop(tool_calls, acc) ==
    IF tool_calls = <<>> THEN acc
    ELSE LET tool_call == Head(tool_calls)
             arguments == tool_call.arguments
         IN  IF tool_call.name # "extract_search_intent"
             THEN IntentLoop(Tail(tool_calls), acc)
             ELSE IF arguments.k # "object" \/ arguments.q.k = "null"
             THEN [acc EXCEPT !.raised = TRUE]
             ELSE IntentLoop(Tail(tool_calls),
                      [acc EXCEPT !.intent_data =
                          ProcessIntentExtraction(
                              Get(arguments.q, JStr(<<>>)).s)])

\* an except clause that reports the confidence of the assisted path
IntentFallbackConfident(query) ==
    Intent(query, "informational", "general", Rat(4, 5))

\* the dict the except clause returns
IntentFallback(query) ==
    Intent(query, "informational", "general", Rat(1, 2))

\* extract_search_intent(query)
ExtractSearchIntent(query, backend) ==
    LET primary == backend.primary
        loop == IntentLoop(primary.tool_calls,
                    [intent_data |-> Intent(query, "informational", "general",
                                            Rat(4, 5)),
                     raised |-> FALSE])
    IN  [ServiceOutcome("returned", NoException, 1) EXCEPT
            !.intent = IF primary.k = "raise" \/ loop.raised
                       THEN IntentFallback(query)
                       ELSE loop.intent_data]

----------------------------------------------------------------------------
(* services/openai/main.py: the HTTP wrapper *)

\* `if not openai_service: raise HTTPException(status_code=503, ...)`
ServiceUnavailable(detail) ==
    [ServiceOutcome("raised", Exception("HTTPException", <<>>), 0) EXCEPT
        !.status = 503, !.detail = <<Lit(detail)>>]

\* the try/except of an endpoint around the outcome o of its body
Answer(o, failure) ==
    IF o.kind = "raised"
    THEN [o EXCEPT !.exc = Exception("HTTPException", <<>>),
                   !.status = 500,
                   !.detail = <<Lit(failure)>> \o o.exc.msg]
    ELSE [o EXCEPT !.status = 200]

\* SearchResult(..., score=result.score or 0.0,
\*              category=result.category or "general")
ToDomain(results) ==
    [i \in 1 .. Len(results) |->
        [results[i] EXCEPT
            !.category = IF results[i].category = <<>> THEN General
                         ELSE results[i].category]]

\* POST /enhance-results
PostEnhanceResults(svc, query, results, backend) ==
    IF svc # "ready"
    THEN ServiceUnavailable(
             "OpenAI service not available. Please check your API key configuration.")
    ELSE Answer(EnhanceSearchResults(query, ToDomain(results), backend),
                "Enhancement failed: ")

\* POST /suggest-queries
PostSuggestQueries(svc, query, backend) ==
    IF svc # "ready"
    THEN ServiceUnavailable("OpenAI service not available")
    ELSE Answer(SuggestQueryImprovements(query, backend),
                "Suggestion generation failed: ")

\* POST /extract-intent
PostExtractIntent(svc, query, backend) ==
    IF svc # "ready"
    THEN ServiceUnavailable("OpenAI service not available")
    ELSE Answer(ExtractSearchIntent(query, backend),
                "Intent extraction failed: ")

----------------------------------------------------------------------------
(* Inputs of the enhancement service *)

MaxInput == 6       \* longest list of results handed to the service
MaxFailAt == 2      \* latest secondary completion call that may raise

\* the i-th result of a list: titles alternate; one content is longer
\* than the basic summary, one exactly as long, the others are short
ResultAt(i, shift) ==
    LET digit == <<"1", "2", "3", "4", "5", "6", "7", "8", "9">>[i]
    IN  [title |-> (IF i % 2 = 1 THEN <<"P", "y", " ">>
                    ELSE <<"D", "o", "c", " ">>) \o <<digit>>,
         url |-> HTTP \o <<digit>>,
         content |->
             CASE i + shift = 2 -> [j \in 1 .. BasicSummaryLength + 1 |-> "x"]
               [] i + shift = 3 -> [j \in 1 .. BasicSummaryLength |-> "x"]
               [] OTHER -> <<"b", "u", "y", " ", "p", "y", " ", "n", "o", "w">>,
         engine |-> "test",
         score |-> 0,
         category |-> IF i % 2 = 1 THEN <<>> ELSE News]

ResultLists ==
    { [i \in 1 .. n |-> ResultAt(i, shift)] :
        n \in 0 .. MaxInput, shift \in {0, 1} }

ServiceQueries ==
    { <<>>, <<"b", "u", "y", " ", "p", "y">>, <<"C", "o", "s", "t">>,
      <<"h", "o", "w", " ", "t", "o", " ", "l", "o", "g", "i", "n">>,
      <<"t", "e", "c", "h", " ", "n", "e", "w", "s">> }

\* the values the model puts under "query" / "original_query"
ModelQueries ==
    {JMissing, JNull} \cup { JStr(q) : q \in ServiceQueries }

OtherTool(target) ==
    IF target = "analyze_search_results" THEN "extract_search_intent"
    ELSE "analyze_search_results"

\* replies to the primary call of a method that handles the tool `target`:
\* failure, no tool call, another tool only, one call of the tool, and two
\* tool calls
PrimaryReplies(target, qs) ==
    LET valid == { ArgsObject(q) : q \in qs }
        other == ToolCall(OtherTool(target), ArgsObject(JMissing))
    IN  {CompletionFails, Message(<<>>), Message(<<other>>)}
        \cup { Message(<<ToolCall(target, a)>>) :
                 a \in valid \cup {ArgsInvalid, ArgsArray} }
        \cup { Message(<<ToolCall(target, a), ToolCall(target, b)>>) :
                 a \in valid \cup {ArgsInvalid},
                 b \in valid \cup {ArgsInvalid} }
        \cup { Message(<<other, ToolCall(target, a)>>) : a \in valid }
        \cup { Message(<<ToolCall(target, a), other>>) : a \in valid }

\* whether the analysis of results runs for this reply
Analyses(primary) ==
    /\ primary.k = "message"
    /\ \E i \in 1 .. Len(primary.tool_calls) :
          /\ primary.tool_calls[i].name = "analyze_search_results"
          /\ primary.tool_calls[i].arguments.k # "invalid"
          /\ \A j \in 1 .. i - 1 :
                \/ primary.tool_calls[j].name # "analyze_search_results"
                \/ primary.tool_calls[j].arguments.k # "invalid"

\* backends of an invocation of enhance_search_results: the secondary
\* behaviour only varies when secondary calls are issued
EnhanceBackends ==
    { Backend(p, JNull, JNull, 0) :
        p \in { r \in PrimaryReplies("analyze_search_results", {JMissing}) :
                  ~Analyses(r) } }
    \cup { Backend(p, s, k, f) :
             p \in { r \in PrimaryReplies("analyze_search_results", {JMissing}) :
                       Analyses(r) },
             s \in { JNull, JStr(<<" ", " ", "S", "u", "m", " ", "\n">>) },
             k \in { JNull,
                     JStr(<<"-", " ", "a", "\n", "-", "\n", "\n",
                            " ", "b", " ", "\n", "c", "\n", "d">>) },
             f \in 0 .. MaxFailAt }

SuggestBackends ==
    { Backend(p, JNull, JNull, 0) :
        p \in PrimaryReplies("suggest_query_improvements", ModelQueries) }

IntentBackends ==
    { Backend(p, JNull, JNull, 0) :
        p \in PrimaryReplies("extract_search_intent", ModelQueries) }

NoBackend == Backend(CompletionFails, JNull, JNull, 0)

\* the caller's view of the last invocation: its inputs and its outcome;
\* layer is "service" for a call of a method of OpenAISearchService and
\* "http" for a request to an endpoint
NoInvocation ==
    [layer |-> "none", op |-> "", query |-> <<>>, results |-> <<>>,
     backend |-> NoBackend, kind |-> "none", exc |-> NoException,
     enhanced |-> <<>>, suggestions |-> <<>>, intent |-> NoIntent,
     completions |-> 0, status |-> 0, detail |-> <<>>]

Invocation(layer, op, query, results, backend, o) ==
    [layer |-> layer, op |-> op, query |-> query, results |-> results,
     backend |-> backend, kind |-> o.kind, exc |-> o.exc,
     enhanced |-> o.enhanced, suggestions |-> o.suggestions,
     intent |-> o.intent, completions |-> o.completions,
     status |-> o.status, detail |-> o.detail]

----------------------------------------------------------------------------
(* The state machine *)

Queries ==
    { <<>>, <<" ">>, <<"\t", " ">>, <<" ", "a", " ">>, <<"a", " ", "b">> }

Overrides ==
    { EmptyDict, Entry("time_range", Txt(<<"d", "a", "y">>)),
      Entry("categories", Txt(General)) }

NoCall ==
    [op |-> "none", query |-> <<>>, kwargs |-> EmptyDict,
     reply |-> Transport(""), kind |-> "none", exc |-> NoException,
     response |-> NoResponse, gets |-> 0, params |-> EmptyDict,
     health |-> NoHealth, simplified |-> <<>>]

Call(op, query, kwargs, reply, o) ==
    [op |-> op, query |-> query, kwargs |-> kwargs, reply |-> reply,
     kind |-> o.kind, exc |-> o.exc, response |-> o.response,
     gets |-> o.gets, params |-> o.params, health |-> o.health,
     simplified |-> o.simplified]

Init ==
    /\ args \in ConfigArgs
    /\ config = Unbuilt
    /\ session = "none"
    /\ nreq = 0
    /\ call = NoCall
    /\ service = "unstarted"
    /\ invocation = NoInvocation

\* SearchConfig(**args): the dataclass __init__, then __post_init__
Construct ==
    /\ config.state = "unbuilt"
    /\ config' = PostInit(Fields(args))
    /\ UNCHANGED <<args, session, nreq, call, service, invocation>>

\* SearXNGClient(config)
NewClient ==
    /\ config.state = "built"
    /\ session = "none"
    /\ session' = "open"
    /\ UNCHANGED <<args, config, nreq, call, service, invocation>>

\* client.search(query, **kwargs); the caller holds no earlier outcome
DoSearch ==
    /\ session # "none"
    /\ call.kind = "none"
    /\ nreq < MaxRequests
    /\ \E query \in Queries, kwargs \in Overrides, reply \in Replies :
         \E o \in Search(config.cfg, query, kwargs, reply) :
            /\ call' = Call("search", query, kwargs, reply, o)
            /\ nreq' = nreq + o.gets
    /\ UNCHANGED <<args, config, session, service, invocation>>

\* client.search_news(query, **kwargs)
DoSearchNews ==
    /\ session # "none"
    /\ call.kind = "none"
    /\ nreq < MaxRequests
    /\ \E query \in Queries, kwargs \in Overrides, reply \in Replies :
         \E o \in SearchNews(config.cfg, query, kwargs, reply) :
            /\ call' = Call("search_news", query, kwargs, reply, o)
            /\ nreq' = nreq + o.gets
    /\ UNCHANGED <<args, config, session, service, invocation>>

\* client.get_health_status()
DoHealth ==
    /\ session # "none"
    /\ call.kind = "none"
    /\ nreq < MaxRequests
    /\ \E reply \in Replies :
         LET o == GetHealthStatus(config.cfg, reply)
         IN  /\ call' = Call("get_health_status", <<>>, EmptyDict, reply, o)
             /\ nreq' = nreq + o.gets
    /\ UNCHANGED <<args, config, session, service, invocation>>

\* the caller is done with the outcome of its call
Discard ==
    /\ call.kind # "none"
    /\ call' = NoCall
    /\ UNCHANGED <<args, config, session, nreq, service, invocation>>

\* client.close(), also reached through __exit__
Close ==
    /\ session # "none"
    /\ session' = "closed"
    /\ UNCHANGED <<args, config, nreq, call, service, invocation>>

Next ==
    \/ Construct
    \/ NewClient
    \/ DoSearch
    \/ DoSearchNews
    \/ DoHealth
    \/ Discard
    \/ Close

Spec == Init /\ [][Next]_vars

----------------------------------------------------------------------------
(* Searches of clients configured with time_range, categories and engines *)

Month == <<"m", "o", "n", "t", "h">>

\* SearchConfig(time_range=..., categories=..., engines=...), all valid
ParamConfigs ==
    { [Fields([base_url |-> HTTP \o <<"h">>, timeout |-> DefaultTimeout,
               max_results |-> MaxResults, safe_search |-> 0])
         EXCEPT !.time_range = t, !.categories = c, !.engines = e] :
        t \in {<<>>, Month},
        c \in {<<>>, <<General>>, <<General, News>>},
        e \in {<<>>, <<<<"g", "o">>, <<"b", "i">>>>} }

InitParams ==
    /\ args \in ParamConfigs
    /\ config = PostInit(args)
    /\ session = "open"
    /\ nreq = 0
    /\ call = NoCall
    /\ service = "unstarted"
    /\ invocation = NoInvocation

NextParams ==
    \/ DoSearch
    \/ Discard

SpecParams == InitParams /\ [][NextParams]_vars

----------------------------------------------------------------------------
(* SearchManager: create_client, quick_search, search_ai_news, and the     *)
(* with-block of test_search_engine.main                                   *)

EnvMaxResults == 10
QuickSnippet == 200
NewsSnippet == 300

\* content[:n] + "..." if len(content) > n else content
Snippet(content, n) ==
    IF Len(content) > n THEN Take(content, n) \o <<".", ".", ".">>
    ELSE content

\* ', '.join(result.engines), as the sequence of its pieces
RECURSIVE JoinNames(_)
JoinNames(names) ==
    IF names = <<>> THEN <<>>
    ELSE IF Len(names) = 1 THEN names
    ELSE <<names[1], ", ">> \o JoinNames(Tail(names))

\* the dict a helper builds for one result; category only for news
Simplified(result, n, news) ==
    [title |-> result.title, url |-> result.url,
     snippet |-> JStr(Snippet(result.content.s, n)),
     engines |-> JoinNames(result.engines.l),
     category |-> IF news THEN result.category ELSE JMissing]

\* the list comprehension over `results`, inside the with-block: len() of a
\* content that is not a string and join() of engines that are not a list
\* raise TypeError
Simplify(o, results, n, news) ==
    IF o.kind = "raised" THEN o
    ELSE IF \E i \in 1 .. Len(results) :
               results[i].content.k # "str" \/ results[i].engines.k # "list"
    THEN [Raised(Exception("TypeError", <<Lit("can only join an iterable")>>),
                 o.gets) EXCEPT !.params = o.params]
    ELSE [o EXCEPT !.response = NoResponse,
                   !.simplified = [i \in 1 .. Len(results) |->
                                      Simplified(results[i], n, news)]]

\* a scope that calls close() after its body, without a with-block
AfterScopeUnlessRaised(o) == IF o.kind = "raised" THEN "open" ELSE "closed"

\* the session when the with-block is left: __exit__ calls close() whether
\* the body returned or raised, and lets the exception pass
AfterScope(o) == "closed"

\* the config_params create_client hands to SearchConfig, and its outcome
ConfigParams(ambient, max_results, time_range, engines) ==
    [Fields([ambient EXCEPT !.max_results = max_results])
        EXCEPT !.time_range = time_range, !.engines = engines]

\* `with self.create_client(...) as client:` around a body with outcomes
\* `body`; a failed construction raises before any client exists. What the
\* helper leaves behind: its outcome, the configuration of the client it
\* created and that client's session
WithClient(cfgres, body) ==
    IF cfgres.state = "failed"
    THEN {[outcome |-> Raised(cfgres.exc, 0), config |-> cfgres,
           session |-> "none"]}
    ELSE {[outcome |-> o, config |-> cfgres, session |-> AfterScope(o)] :
            o \in body}

QuickSearch(ambient, query, max_results, reply) ==
    LET cfgres == PostInit(ConfigParams(ambient, max_results, <<>>, <<>>))
    IN  WithClient(cfgres,
            { Simplify(o, o.response.results, QuickSnippet, FALSE) :
                o \in Search(cfgres.cfg, query, EmptyDict, reply) })

\* f"AI news {year} artificial intelligence"
AiNewsQuery(year) ==
    <<"A", "I", " ", "n", "e", "w", "s", " ">> \o year
    \o <<" ", "a", "r", "t", "i", "f", "i", "c", "i", "a", "l", " ",
         "i", "n", "t", "e", "l", "l", "i", "g", "e", "n", "c", "e">>

SearchAiNews(ambient, year, max_results, reply) ==
    LET cfgres == PostInit(ConfigParams(ambient, max_results, <<>>, <<>>))
    IN  WithClient(cfgres,
            { Simplify(o, o.response.results, NewsSnippet, TRUE) :
                o \in SearchNews(cfgres.cfg, AiNewsQuery(year),
                                 Entry("time_range", Txt(Year)), reply) })

\* main: with manager.create_client(engines=[...], time_range='month'),
\* client.search(query), then the first three results as dicts
MainSearch(ambient, query, reply) ==
    LET cfgres == PostInit(ConfigParams(ambient, ambient.max_results,
                                        Month,
                                        <<<<"g", "o">>, <<"b", "i">>,
                                          <<"d", "d", "g">>>>))
    IN  WithClient(cfgres,
            { Simplify(o, Take(o.response.results, 3), QuickSnippet, FALSE) :
                o \in Search(cfgres.cfg, query, EmptyDict, reply) })

\* SearchManager(base_url): the ambient configuration
Ambients ==
    { [base_url |-> b, timeout |-> DefaultTimeout,
       max_results |-> EnvMaxResults, safe_search |-> 0] :
        b \in {HTTP \o <<"h">>, <<"h">>} }

\* the year a caller of search_ai_news passes
Years == { <<"2", "0", "2", "5">>, <<>> }

\* result items that carry a content: null, or a text just at and just
\* over each snippet length
ContentItems ==
    { [Obj(JStr(<<"A">>), JStr(HTTP \o <<"a">>), EList(<<"google", "bing">>))
          EXCEPT !.content = c] :
        c \in {JNull}
              \cup { JStr([j \in 1 .. n |-> IF j % 2 = 1 THEN "a" ELSE "b"]) :
                       n \in {QuickSnippet, QuickSnippet + 1,
                              NewsSnippet, NewsSnippet + 1} } }

\* the answers of the search backend to a helper's request
ManagerReplies ==
    Replies
    \cup { Http(200, BodyJson(JsonObject(RList(b), <<>>))) :
             b \in UNION { [1 .. n -> ContentItems] : n \in 1 .. MaxBatch } }

InitManager ==
    /\ args \in Ambients
    /\ config = Unbuilt
    /\ session = "none"
    /\ nreq = 0
    /\ call = NoCall
    /\ service = "unstarted"
    /\ invocation = NoInvocation

\* the helper has run: config and session are those of the client it created
Helped(op, query, reply, m) ==
    /\ call' = Call(op, query, EmptyDict, reply, m.outcome)
    /\ config' = m.config
    /\ session' = m.session
    /\ nreq' = m.outcome.gets
    /\ UNCHANGED <<args, service, invocation>>

\* manager.quick_search(query, max_results)
DoQuickSearch ==
    /\ call.kind = "none"
    /\ \E query \in Queries, max_results \in MaxResultsValues,
          reply \in ManagerReplies :
         \E m \in QuickSearch(args, query, max_results, reply) :
            Helped("quick_search", query, reply, m)

\* manager.search_ai_news(year, max_results)
DoSearchAiNews ==
    /\ call.kind = "none"
    /\ \E year \in Years, max_results \in MaxResultsValues,
          reply \in ManagerReplies :
         \E m \in SearchAiNews(args, year, max_results, reply) :
            Helped("search_ai_news", AiNewsQuery(year), reply, m)

\* the with-block of main
DoMainSearch ==
    /\ call.kind = "none"
    /\ \E query \in Queries, reply \in ManagerReplies :
         \E m \in MainSearch(args, query, reply) :
            Helped("main", query, reply, m)

NextManager ==
    \/ DoQuickSearch
    \/ DoSearchAiNews
    \/ DoMainSearch
    \/ Discard

SpecManager == InitManager /\ [][NextManager]_vars

----------------------------------------------------------------------------
(* The enhancement service and its HTTP wrapper *)

InitService ==
    /\ args = [base_url |-> HTTP \o <<"h">>, timeout |-> DefaultTimeout,
               max_results |-> MaxResults, safe_search |-> 0]
    /\ config = Unbuilt
    /\ session = "none"
    /\ nreq = 0
    /\ call = NoCall
    /\ service = "unstarted"
    /\ invocation = NoInvocation

\* startup_event, with or without an API key in the environment: without
\* one the constructor raises ValueError and startup goes on without service
StartService ==
    /\ service = "unstarted"
    /\ \E api_key \in BOOLEAN : service' = IF api_key THEN "ready" ELSE "none"
    /\ UNCHANGED <<args, config, session, nreq, call, invocation>>

\* service.enhance_search_results(query, results)
EnhanceCall ==
    /\ service = "ready"
    /\ invocation.kind = "none"
    /\ \E query \in ServiceQueries, results \in ResultLists,
          backend \in EnhanceBackends :
         invocation' = Invocation("service", "enhance_search_results", query,
                           results, backend,
                           EnhanceSearchResults(query, results, backend))
    /\ UNCHANGED <<args, config, session, nreq, call, service>>

\* service.suggest_query_improvements(query)
SuggestCall ==
    /\ service = "ready"
    /\ invocation.kind = "none"
    /\ \E query \in ServiceQueries, backend \in SuggestBackends :
         invocation' = Invocation("service", "suggest_query_improvements",
                           query, <<>>, backend,
                           SuggestQueryImprovements(query, backend))
    /\ UNCHANGED <<args, config, session, nreq, call, service>>

\* service.extract_search_intent(query)
IntentCall ==
    /\ service = "ready"
    /\ invocation.kind = "none"
    /\ \E query \in ServiceQueries, backend \in IntentBackends :
         invocation' = Invocation("service", "extract_search_intent", query,
                           <<>>, backend, ExtractSearchIntent(query, backend))
    /\ UNCHANGED <<args, config, session, nreq, call, service>>

\* POST /enhance-results
EnhanceRequest ==
    /\ service # "unstarted"
    /\ invocation.kind = "none"
    /\ \E query \in ServiceQueries, results \in ResultLists,
          backend \in (IF service = "ready" THEN EnhanceBackends
                          ELSE {NoBackend}) :
         invocation' = Invocation("http", "/enhance-results", query, results,
                           backend,
                           PostEnhanceResults(service, query, results,
                                              backend))
    /\ UNCHANGED <<args, config, session, nreq, call, service>>

\* POST /suggest-queries
SuggestRequest ==
    /\ service # "unstarted"
    /\ invocation.kind = "none"
    /\ \E query \in ServiceQueries, backend \in (IF service = "ready" THEN SuggestBackends
                          ELSE {NoBackend}) :
         invocation' = Invocation("http", "/suggest-queries", query, <<>>,
                           backend,
                           PostSuggestQueries(service, query, backend))
    /\ UNCHANGED <<args, config, session, nreq, call, service>>

\* POST /extract-intent
IntentRequest ==
    /\ service # "unstarted"
    /\ invocation.kind = "none"
    /\ \E query \in ServiceQueries, backend \in (IF service = "ready" THEN IntentBackends
                          ELSE {NoBackend}) :
         invocation' = Invocation("http", "/extract-intent", query, <<>>,
                           backend,
                           PostExtractIntent(service, query, backend))
    /\ UNCHANGED <<args, config, session, nreq, call, service>>

\* the caller is done with the outcome of its invocation
DiscardInvocation ==
    /\ invocation.kind # "none"
    /\ invocation' = NoInvocation
    /\ UNCHANGED <<args, config, session, nreq, call, service>>

NextService ==
    \/ StartService
    \/ EnhanceCall
    \/ SuggestCall
    \/ IntentCall
    \/ EnhanceRequest
    \/ SuggestRequest
    \/ IntentRequest
    \/ DiscardInvocation

SpecService == InitService /\ [][NextService]_vars

\* the methods and endpoints that take a query only
NextQueries ==
    \/ StartService
    \/ SuggestCall
    \/ IntentCall
    \/ SuggestRequest
    \/ IntentRequest
    \/ DiscardInvocation

SpecQueries == InitService /\ [][NextQueries]_vars

----------------------------------------------------------------------------
(* Properties of search and search_news *)

IsSearchCall == call.op \in {"search", "search_news"}

OnlyWhitespace(query) == \A i \in 1 .. Len(query) : query[i] \in Whitespace

\* the call reached the backend and the backend answered with a JSON object
\* whose "results" member is an array
Upstream == call.reply.body.doc.results.l

AnsweredWithBatch ==
    /\ IsSearchCall
    /\ ~OnlyWhitespace(call.query)
    /\ call.reply.exc = ""
    /\ call.reply.status = 200
    /\ call.reply.body.k = "json"
    /\ call.reply.body.doc.k = "object"
    /\ call.reply.body.doc.results.k = "list"

HasHttpUrl(v) == v.k = "str" /\ StartsWithHttp(v.s)

\* C1: search and search_news called with a query that is empty or only
\* whitespace raise the empty-query error; that call issues no HTTP request
\* and leaves the client (configuration, session, request count) unchanged.
C1_BlankQueryFailsBeforeRequest ==
    [][(/\ call' # call
        /\ call'.op \in {"search", "search_news"}
        /\ OnlyWhitespace(call'.query))
       => (/\ call'.kind = "raised"
           /\ call'.exc = EmptyQueryError
           /\ call'.gets = 0
           /\ nreq' = nreq
           /\ session' = session
           /\ config' = config)]_vars

C1_Witness ==
    /\ call.op = "search_news"
    /\ call.query = <<"\t", " ">>
    /\ call.kind = "raised"
    /\ call.exc = EmptyQueryError
    /\ nreq = 0

\* C2: the results of a returned SearchResponse are exactly the upstream
\* items whose url has an http/https scheme, in upstream order, truncated to
\* max_results (every valid item is present until max_results are reached).
C2_ValidItemsThenTruncate ==
    (AnsweredWithBatch /\ call.kind = "returned") =>
        LET IsValid(item) == item.obj /\ HasHttpUrl(item.url)
            expected == Take(SelectSeq(Upstream, IsValid),
                             config.cfg.max_results)
            results == call.response.results
        IN  /\ Len(results) = Len(expected)
            /\ \A i \in 1 .. Len(expected) :
                  results[i] = SearchResult(expected[i], expected[i].url)

\* C3: every result of a returned SearchResponse has a url that starts with
\* http:// or https://.
C3_EveryResultHasHttpUrl ==
    (IsSearchCall /\ call.kind = "returned") =>
        \A i \in 1 .. Len(call.response.results) :
            HasHttpUrl(call.response.results[i].url)

\* C4: in every returned SearchResponse total_results is the number of
\* results in the response, whatever number of items the upstream sent.
C4_TotalResultsIsLength ==
    (IsSearchCall /\ call.kind = "returned") =>
        call.response.total_results = Len(call.response.results)

C4_Witness ==
    /\ AnsweredWithBatch
    /\ call.kind = "returned"
    /\ Len(Upstream) = 2
    /\ call.response.total_results = 1
    /\ Len(call.response.results) = 1

\* C5: in every returned SearchResponse engines_used holds exactly the
\* engines that occur in the engines list of some returned result, each once.
C5_EnginesUsedIsUnionOverResults ==
    (IsSearchCall /\ call.kind = "returned") =>
        LET results == call.response.results
            used == call.response.engines_used
        IN  /\ { used[i] : i \in 1 .. Len(used) }
                 = { e \in {"google", "bing", "ddg", "brave"} :
                       \E i \in 1 .. Len(results) :
                          \E j \in 1 .. Len(results[i].engines.l) :
                             results[i].engines.l[j] = e }
            /\ \A i, j \in 1 .. Len(used) : used[i] = used[j] => i = j

\* two results sharing an engine, and an upstream item beyond max_results
\* whose engine is not reported
C5_Witness ==
    /\ AnsweredWithBatch
    /\ call.kind = "returned"
    /\ config.cfg.max_results = 1
    /\ Len(Upstream) = 2
    /\ Upstream[2].engines.l = <<"bing", "google">>
    /\ call.response.engines_used = <<"google">>

\* C6: a malformed item in the upstream batch never makes search fail: a
\* SearchResponse is returned for every batch.
C6_MalformedItemNeverFails ==
    AnsweredWithBatch => call.kind = "returned"

C8_TimeoutMessageNamesTimeout ==
    (/\ IsSearchCall
     /\ ~OnlyWhitespace(call.query)
     /\ call.reply.exc \in {"ReadTimeout", "ConnectTimeout"}) =>
        /\ call.kind = "raised"
        /\ call.exc.type = "NetworkError"
        /\ \E i \in 1 .. Len(call.exc.msg) :
              call.exc.msg[i] = Num(config.cfg.timeout)

\* C9: every exception that escapes search is a NetworkError, an APIError or
\* the empty-query error, for every behaviour of the backend.
C9_OnlyTaxonomyErrorsEscape ==
    (IsSearchCall /\ call.kind = "raised") =>
        \/ call.exc.type \in {"NetworkError", "APIError"}
        \/ call.exc = EmptyQueryError

----------------------------------------------------------------------------
(* Properties of SearchConfig *)

\* C10: constructing a SearchConfig fails if and only if timeout <= 0,
\* max_results <= 0, safe_search is not 0, 1 or 2, or base_url does not start
\* with http:// or https://; a constructed configuration holds the values it
\* was given.
C10_ConstructionFailsIffInvalid ==
    config.state # "unbuilt" =>
        /\ config.state = "failed" <=>
              \/ args.timeout <= 0
              \/ args.max_results <= 0
              \/ args.safe_search \notin {0, 1, 2}
              \/ ~(StartsWith(args.base_url, HTTP)
                   \/ StartsWith(args.base_url, HTTPS))
        /\ config.state = "built" =>
              /\ config.cfg.base_url = args.base_url
              /\ config.cfg.timeout = args.timeout
              /\ config.cfg.max_results = args.max_results
              /\ config.cfg.safe_search = args.safe_search

C10_Witness ==
    /\ config.state = "built"
    /\ args.safe_search = 2
    /\ args.max_results = 1
    /\ StartsWith(args.base_url, HTTPS)

\* C11: search_news issues its request with categories=news whatever
\* overrides the caller passes, with time_range=year unless the caller passes
\* a time_range (then the caller's value), and with every other override
\* passed through unchanged.
C11_NewsCategoryForced ==
    (call.op = "search_news" /\ call.gets = 1) =>
        /\ call.params["categories"] = Txt(News)
        /\ call.params["time_range"] =
              IF "time_range" \in DOMAIN call.kwargs
              THEN call.kwargs["time_range"] ELSE Txt(Year)
        /\ \A key \in DOMAIN call.kwargs \ {"categories", "time_range"} :
              call.params[key] = call.kwargs[key]

\* C12: the request parameters of a search are the config-derived parameters
\* (q = the trimmed query, format=json, language, safesearch, time_range only
\* when configured, categories and engines comma-joined and only when
\* non-empty) merged with the overrides: an override wins for a key present
\* in both, and a key absent from the overrides keeps its config value.
C12_ParamsAreConfigMergedWithOverrides ==
    (call.op = "search" /\ call.gets = 1) =>
        LET cfg == config.cfg
            derived ==
                {"q", "format", "language", "safesearch"}
                \cup (IF cfg.time_range # <<>> THEN {"time_range"} ELSE {})
                \cup (IF cfg.categories # <<>> THEN {"categories"} ELSE {})
                \cup (IF cfg.engines # <<>> THEN {"engines"} ELSE {})
            value(key) ==
                CASE key = "q" -> Txt(Strip(call.query))
                  [] key = "format" -> Txt(<<"j", "s", "o", "n">>)
                  [] key = "language" -> Txt(cfg.language)
                  [] key = "safesearch" -> Num(cfg.safe_search)
                  [] key = "time_range" -> Txt(cfg.time_range)
                  [] key = "categories" -> Txt(Join(<<",">>, cfg.categories))
                  [] key = "engines" -> Txt(Join(<<",">>, cfg.engines))
        IN  /\ DOMAIN call.params = derived \cup DOMAIN call.kwargs
            /\ \A key \in DOMAIN call.kwargs :
                  call.params[key] = call.kwargs[key]
            /\ \A key \in derived \ DOMAIN call.kwargs :
                  call.params[key] = value(key)

\* a configured time_range overridden by the caller, two categories joined,
\* no engines configured, a query with surrounding blanks
C12_Witness ==
    /\ call.op = "search"
    /\ call.gets = 1
    /\ call.query = <<" ", "a", " ">>
    /\ config.cfg.time_range = Month
    /\ config.cfg.categories = <<General, News>>
    /\ config.cfg.engines = <<>>
    /\ call.kwargs = Entry("time_range", Txt(<<"d", "a", "y">>))
    /\ call.params["q"] = Txt(<<"a">>)
    /\ call.params["time_range"] = Txt(<<"d", "a", "y">>)
    /\ call.params["categories"] =
          Txt(<<"g", "e", "n", "e", "r", "a", "l", ",", "n", "e", "w", "s">>)
    /\ "engines" \notin DOMAIN call.params

IsHealthCall == call.op = "get_health_status"

\* the report is 'healthy' with a response time and the remote config, or
\* 'unhealthy' with an error text
HealthReportShape ==
    /\ call.kind = "returned"
    /\ call.health.url = config.cfg.base_url
    /\ call.health.status \in {"healthy", "unhealthy"}
    /\ call.health.status = "healthy" =>
          /\ call.health.response_time
          /\ call.health.config = call.reply.body.doc
    /\ call.health.status = "unhealthy" => call.health.error # <<>>

IsScopedCall == call.op \in {"quick_search", "search_ai_news", "main"}

\* C14: once quick_search, search_ai_news or a with-block around a search
\* has returned or raised, the session of the client it created is closed;
\* the session exists from the construction of the client on, and when the
\* construction failed there is no client and no session.
C14_SessionClosedAfterScope ==
    IsScopedCall =>
        /\ call.kind \in {"returned", "raised"}
        /\ config.state = "built" => session = "closed"
        /\ config.state = "failed" => (session = "none" /\ call.kind = "raised")

\* quick_search raised the NetworkError of a timed-out request and the
\* session of its client is closed
C14_Witness ==
    /\ call.op = "quick_search"
    /\ call.kind = "raised"
    /\ call.reply.exc = "ReadTimeout"
    /\ call.exc.type = "NetworkError"
    /\ call.gets = 1
    /\ config.state = "built"
    /\ session = "closed"

----------------------------------------------------------------------------
(* Properties of the enhancement service and its HTTP wrapper *)

IsEnhanceCall ==
    invocation.layer = "service" /\ invocation.op = "enhance_search_results"
IsSuggestCall ==
    invocation.layer = "service"
    /\ invocation.op = "suggest_query_improvements"
IsIntentCall ==
    invocation.layer = "service" /\ invocation.op = "extract_search_intent"

PrimaryFailed == invocation.backend.primary.k = "raise"

\* the tool calls of the primary reply that name `tool`
CallsOf(tool) ==
    { i \in 1 .. Len(invocation.backend.primary.tool_calls) :
        invocation.backend.primary.tool_calls[i].name = tool }

ArgumentsOf(i) == invocation.backend.primary.tool_calls[i].arguments

\* C15: for every query, input list and reply of the model,
\* enhance_search_results returns a list of length min(len(results), 5)
\* whose i-th element has the i-th input result as its original_result.
C15_EnhancedAreFirstFiveInOrder ==
    IsEnhanceCall =>
        /\ invocation.kind = "returned"
        /\ Len(invocation.enhanced) =
              (IF Len(invocation.results) < 5 THEN Len(invocation.results)
               ELSE 5)
        /\ \A i \in 1 .. Len(invocation.enhanced) :
              invocation.enhanced[i].original_result = invocation.results[i]

\* the deterministic fallback for one input result
IsBasic(enhanced, result) ==
    /\ enhanced.original_result = result
    /\ enhanced.relevance_score.num * 2 = enhanced.relevance_score.den
    /\ enhanced.sentiment = "neutral"
    /\ enhanced.key_points = <<result.title>>
    /\ enhanced.ai_summary =
          IF Len(result.content) <= 200 THEN result.content
          ELSE SubSeq(result.content, 1, 200) \o <<".", ".", ".">>

\* C16: enhance_search_results never raises, and when the primary
\* completion call fails every returned result is the deterministic
\* fallback: relevance_score 0.5, sentiment 'neutral', key_points = [title],
\* ai_summary = the content if it has at most 200 characters, else its first
\* 200 characters followed by '...'.
C16_FallbackWhenPrimaryFails ==
    IsEnhanceCall =>
        /\ invocation.kind = "returned"
        /\ PrimaryFailed =>
              \A i \in 1 .. Len(invocation.enhanced) :
                 IsBasic(invocation.enhanced[i], invocation.results[i])

\* the primary call failed for a list with a content of 200 and one of 201
\* characters: the first is its own summary, the second is cut
C16_Witness ==
    /\ IsEnhanceCall
    /\ PrimaryFailed
    /\ invocation.kind = "returned"
    /\ \E i, j \in 1 .. Len(invocation.enhanced) :
          /\ Len(invocation.results[i].content) = 200
          /\ invocation.enhanced[i].ai_summary = invocation.results[i].content
          /\ Len(invocation.results[j].content) = 201
          /\ Len(invocation.enhanced[j].ai_summary) = 203
          /\ invocation.enhanced[j].ai_summary[203] = "."

\* C17: suggest_query_improvements never raises, and whenever the
\* completion call fails, the arguments of a suggest_query_improvements
\* tool call are not valid JSON, or the reply holds no
\* suggest_query_improvements call, it returns exactly [query].
C17_FailureGivesQueryAlone ==
    IsSuggestCall =>
        /\ invocation.kind = "returned"
        /\ (\/ PrimaryFailed
            \/ \E i \in CallsOf("suggest_query_improvements") : ArgumentsOf(i).k = "invalid"
            \/ CallsOf("suggest_query_improvements") = {})
           => invocation.suggestions = <<invocation.query>>

\* a reply whose second suggest_query_improvements call has arguments that
\* are not JSON: the suggestions of the first call are dropped
C17_Witness ==
    /\ IsSuggestCall
    /\ invocation.query = <<"b", "u", "y", " ", "p", "y">>
    /\ ~PrimaryFailed
    /\ CallsOf("suggest_query_improvements") = {1, 2}
    /\ ArgumentsOf(1).k = "object"
    /\ ArgumentsOf(2).k = "invalid"
    /\ invocation.kind = "returned"
    /\ invocation.suggestions = <<invocation.query>>

\* C18: for every query containing a transactional keyword (buy, purchase,
\* price, cost) extract_search_intent returns intent_type 'transactional' on
\* every path: the model made the tool call, made none, or the call failed.
C18_TransactionalOnEveryPath ==
    (/\ IsIntentCall
     /\ \E w \in {<<"b", "u", "y">>, <<"p", "u", "r", "c", "h", "a", "s", "e">>,
                  <<"p", "r", "i", "c", "e">>, <<"c", "o", "s", "t">>} :
           Contains(invocation.query, w)) =>
        invocation.intent.intent_type = "transactional"

\* the five fields of an intent, urgency 'medium'
IntentShape ==
    /\ invocation.kind = "returned"
    /\ DOMAIN invocation.intent =
          {"query", "intent_type", "category", "urgency", "confidence"}
    /\ invocation.intent.intent_type \in
          {"informational", "navigational", "transactional", "commercial"}
    /\ invocation.intent.category \in
          {"general", "technology", "health", "news"}
    /\ invocation.intent.urgency = "medium"

IsFloat(r, num, den) == r.num * den = num * r.den

\* C19 as stated: extract_search_intent never raises and returns the five
\* fields with urgency 'medium'; confidence is 0.8 whenever the model call
\* returned and 0.5 whenever it raised.
C19_ConfidenceByModelCall ==
    IsIntentCall =>
        /\ IntentShape
        /\ ~PrimaryFailed => IsFloat(invocation.intent.confidence, 4, 5)
        /\ PrimaryFailed => IsFloat(invocation.intent.confidence, 1, 2)

\* the reply holds an extract_search_intent call whose arguments cannot be
\* processed: not JSON, not an object, or a null query
Unprocessable ==
    \E i \in CallsOf("extract_search_intent") :
       ArgumentsOf(i).k # "object" \/ ArgumentsOf(i).q.k = "null"

\* C19 amended: extract_search_intent never raises and returns the five
\* fields with urgency 'medium'; confidence is 0.5 whenever the model call
\* raised or its reply could not be processed, and 0.8 otherwise.
C19_ConfidenceByFallback ==
    IsIntentCall =>
        /\ IntentShape
        /\ (PrimaryFailed \/ Unprocessable) =>
              IsFloat(invocation.intent.confidence, 1, 2)
        /\ ~(PrimaryFailed \/ Unprocessable) =>
              IsFloat(invocation.intent.confidence, 4, 5)

\* the model call returned a tool call whose arguments are not JSON, and
\* the confidence is 0.5
C19_Witness ==
    /\ IsIntentCall
    /\ ~PrimaryFailed
    /\ CallsOf("extract_search_intent") = {1}
    /\ ArgumentsOf(1).k = "invalid"
    /\ IntentShape
    /\ invocation.intent.confidence = Rat(1, 2)

IsRequest == invocation.layer = "http"

\* C20: each of /enhance-results, /suggest-queries and /extract-intent
\* answers 503 whenever the model backend is unavailable at the time of the
\* request and 500 with an error detail on any other failure, and answers
\* with a success body only when the model backend was available.
C20_UnavailableBackendAnswers503 ==
    IsRequest =>
        LET unavailable == service # "ready" \/ PrimaryFailed
        IN  /\ invocation.status \in {200, 500, 503}
            /\ unavailable => invocation.status = 503
            /\ invocation.status = 500 => invocation.detail # <<>>
            /\ invocation.status = 200 => ~unavailable

----------------------------------------------------------------------------
(* Properties of the helpers' results and of the requests issued *)

IsHelperCall == call.op \in {"quick_search", "search_ai_news"}

\* the snippet length of the helper that ran
SnippetLimit == IF call.op = "quick_search" THEN QuickSnippet ELSE NewsSnippet

\* what the client's search returns to the helper that ran
Underlying ==
    IF call.op = "quick_search"
    THEN Search(config.cfg, call.query, EmptyDict, call.reply)
    ELSE SearchNews(config.cfg, call.query, Entry("time_range", Txt(Year)),
                    call.reply)

\* the dictionary `d` flattens `result`: the content unchanged up to the
\* limit, else its first `limit` characters and an ellipsis
Flattens(d, result, limit) ==
    /\ d.title = result.title
    /\ d.url = result.url
    /\ d.engines = JoinNames(result.engines.l)
    /\ result.content.k = "str"
    /\ d.snippet.k = "str"
    /\ Len(result.content.s) <= limit => d.snippet.s = result.content.s
    /\ Len(result.content.s) > limit =>
          /\ Len(d.snippet.s) = limit + 3
          /\ \A j \in 1 .. limit : d.snippet.s[j] = result.content.s[j]
          /\ \A j \in limit + 1 .. limit + 3 : d.snippet.s[j] = "."
    /\ d.category = IF call.op = "search_ai_news" THEN result.category
                    ELSE JMissing

\* C21: quick_search and search_ai_news return one dictionary per result
\* of the search response they obtained, in the same order, with title,
\* url, engines and a snippet cut at 200 (news: 300) characters, the news
\* helper adding the category; the news helper's request carries the fixed
\* query text around the year, categories=news and time_range=year.
C21_HelpersFlattenEveryResult ==
    (IsHelperCall /\ config.state = "built") =>
        /\ \A o \in Underlying :
              o.kind = "returned" =>
                 /\ call.kind = "returned"
                 /\ Len(call.simplified) = Len(o.response.results)
                 /\ \A i \in 1 .. Len(call.simplified) :
                       Flattens(call.simplified[i], o.response.results[i],
                                SnippetLimit)
        /\ (call.op = "search_ai_news" /\ call.gets = 1) =>
              /\ \E year \in Years : call.params["q"] = Txt(AiNewsQuery(year))
              /\ call.params["categories"] = Txt(News)
              /\ call.params["time_range"] = Txt(Year)

\* the request of the call was answered with a body that is empty or
\* whitespace, resp. not JSON
AnsweredEmpty ==
    call.reply.exc = "" /\ call.reply.body.k \in {"empty", "blank"}
AnsweredNotJson == call.reply.exc = "" /\ call.reply.body.k = "invalid"

\* C22: the failure checks on a /search response run in the order timeout,
\* connection failure, empty body, non-JSON body, 403, 429, other status:
\* an empty or non-JSON body is reported as APIError whatever the status,
\* and every failed request ends in one NetworkError or APIError.
C22_BodyChecksPrecedeStatusChecks ==
    (IsSearchCall /\ call.gets = 1) =>
        /\ AnsweredEmpty =>
              /\ call.kind = "raised"
              /\ call.exc = Exception("APIError",
                                <<Lit("Empty response from SearXNG")>>)
        /\ AnsweredNotJson =>
              /\ call.kind = "raised"
              /\ call.exc.type = "APIError"
              /\ call.exc.msg[1] = Lit("Invalid JSON response from SearXNG: ")
        /\ (call.reply.exc # "" \/ AnsweredEmpty \/ AnsweredNotJson
               \/ RaisesForStatus(call.reply.status)) =>
              /\ call.kind = "raised"
              /\ call.exc.type \in {"NetworkError", "APIError"}

\* C23: a search that passes the query validation issues exactly one GET,
\* whether the request then succeeds or fails, and a rejected call issues
\* none; so quick_search, search_ai_news and the with-block around
\* client.search issue one request whenever their client was constructed
\* and the query is not blank, however the backend answers.
C23_OneRequestPerSearch ==
    IsScopedCall =>
        /\ call.gets = IF config.state = "built" /\ ~IsBlank(call.query)
                       THEN 1 ELSE 0
        /\ nreq = call.gets

\* search_ai_news met a backend answering 500: the search failed after
\* its one request
C23_Witness ==
    /\ call.op = "search_ai_news"
    /\ call.reply.exc = ""
    /\ call.reply.status = 500
    /\ call.kind = "raised"
    /\ call.exc.type = "NetworkError"
    /\ call.gets = 1
    /\ nreq = 1

----------------------------------------------------------------------------
(* Properties of the analysis of results *)

\* the primary completion returned a message without tool calls
NoToolCall ==
    ~PrimaryFailed /\ invocation.backend.primary.tool_calls = <<>>

\* C24: when the primary completion of enhance_search_results returns
\* without a tool call, the invocation issues that one completion request
\* only and returns the basic enhancement of each input result.
C24_NoToolCallGivesBasicAfterOneCall ==
    (IsEnhanceCall /\ NoToolCall) =>
        /\ invocation.kind = "returned"
        /\ invocation.completions = 1
        /\ Len(invocation.enhanced) = Len(invocation.results)
        /\ \A i \in 1 .. Len(invocation.enhanced) :
              IsBasic(invocation.enhanced[i], invocation.results[i])

\* a reply without tool calls for six results, one of them with a content
\* longer than the basic summary
C24_Witness ==
    /\ IsEnhanceCall
    /\ NoToolCall
    /\ invocation.completions = 1
    /\ Len(invocation.enhanced) = 6
    /\ \E i \in 1 .. 6 : Len(invocation.enhanced[i].ai_summary) = 203

\* the results were enhanced by _process_search_analysis: the reply holds
\* analyze_search_results calls and the arguments of each are JSON
OnAnalyzePath ==
    /\ IsEnhanceCall
    /\ ~PrimaryFailed
    /\ CallsOf("analyze_search_results") # {}
    /\ \A i \in CallsOf("analyze_search_results") :
          ArgumentsOf(i).k # "invalid"

\* the number of the whitespace-separated tokens of the query that occur
\* in `text`, letter case ignored
TokensIn(text) ==
    LET tokens == Split(Lower(invocation.query))
    IN  Cardinality({k \in 1 .. Len(tokens) :
                        Contains(Lower(text), tokens[k])})

\* C25: on the analyze path the relevance_score of each result is
\* min(1, 0.6*t/n + 0.4*c/n) for the n query tokens, t of them in the title
\* and c in the content, and for every query, one without tokens included,
\* the score lies between 0 and 1.
C25_ScoreIsWeightedTokenFraction ==
    OnAnalyzePath =>
        \A i \in 1 .. Len(invocation.enhanced) :
           LET score == invocation.enhanced[i].relevance_score
               result == invocation.enhanced[i].original_result
               n == Len(Split(invocation.query))
               weighted == 6 * TokensIn(result.title)
                           + 4 * TokensIn(result.content)
           IN  /\ score.den > 0
               /\ 0 <= score.num /\ score.num <= score.den
               /\ n > 0 =>
                     score.num * 10 * n =
                        score.den * (IF weighted > 10 * n THEN 10 * n
                                     ELSE weighted)

\* the query 'buy py' for a result titled 'Py 1' with content 'buy py
\* now': one token of two in the title, both in the content, score 0.7
C25_Witness ==
    /\ OnAnalyzePath
    /\ invocation.query = <<"b", "u", "y", " ", "p", "y">>
    /\ invocation.enhanced # <<>>
    /\ invocation.enhanced[1].original_result.title = <<"P", "y", " ", "1">>
    /\ invocation.enhanced[1].relevance_score = Rat(14, 20)

\* C26: on every path of enhance_search_results the key_points of a result
\* have at most 3 entries, and on the analyze path, where they are the
\* non-empty lines of the reply without their bullet markers, no key point
\* is the empty string.
C26_KeyPointsAreNonEmptyLines ==
    IsEnhanceCall =>
        \A i \in 1 .. Len(invocation.enhanced) :
           LET key_points == invocation.enhanced[i].key_points
           IN  /\ Len(key_points) <= 3
               /\ OnAnalyzePath =>
                     \A j \in 1 .. Len(key_points) : key_points[j] # <<>>

\* the results enhanced by the last analysis, and the numbers of the
\* summary and key-point requests of its i-th result among the secondary
\* requests of the invocation
Analysed ==
    IF Len(invocation.results) < 5 THEN Len(invocation.results) ELSE 5
EarlierRequests ==
    2 * Analysed * (Cardinality(CallsOf("analyze_search_results")) - 1)
SummaryRequest(i) == EarlierRequests + 2 * i - 1
KeyPointRequest(i) == EarlierRequests + 2 * i

\* C30: on the analyze path a failing summary or key-point request neither
\* aborts the invocation nor switches it to the basic enhancement: that
\* field of that result takes its local default (the first 100 content
\* characters and '...', resp. one key point of the first 50 and '...'),
\* the other fields and results are computed from the replies, and every
\* request of the remaining results is still issued.
C30_SecondaryFailureStaysLocal ==
    OnAnalyzePath =>
        /\ invocation.kind = "returned"
        /\ Len(invocation.enhanced) = Analysed
        /\ invocation.completions = 1 + EarlierRequests + 2 * Analysed
        /\ \A i \in 1 .. Len(invocation.enhanced) :
              LET e == invocation.enhanced[i]
                  content == invocation.results[i].content
                  backend == invocation.backend
              IN  /\ e.original_result = invocation.results[i]
                  /\ e.sentiment = "neutral"
                  /\ e.ai_summary =
                        IF backend.failAt = SummaryRequest(i)
                           \/ backend.summary.k # "str"
                        THEN Take(content, 100) \o <<".", ".", ".">>
                        ELSE Strip(backend.summary.s)
                  /\ e.key_points =
                        IF backend.failAt = KeyPointRequest(i)
                           \/ backend.points.k # "str"
                        THEN <<Take(content, 50) \o <<".", ".", ".">>>>
                        ELSE ExtractKeyPoints(content,
                                              TextMessage(backend.points))

\* the summary request of the first of several results failed: its
\* summary is the default for its 201 characters of content, its key
\* points and the summary of the second result come from the replies
C30_Witness ==
    /\ OnAnalyzePath
    /\ Cardinality(CallsOf("analyze_search_results")) = 1
    /\ invocation.backend.failAt = 1
    /\ invocation.backend.summary.k = "str"
    /\ invocation.backend.points.k = "str"
    /\ Len(invocation.enhanced) >= 2
    /\ Len(invocation.results[1].content) = 201
    /\ Len(invocation.enhanced[1].ai_summary) = 103
    /\ Len(invocation.enhanced[1].key_points) = 3
    /\ invocation.enhanced[2].ai_summary = <<"S", "u", "m">>
    /\ invocation.completions = 1 + 2 * Len(invocation.enhanced)

----------------------------------------------------------------------------
(* Properties of the suggestions and the intent *)

\* the list the claim expects for the caller's query q: q, q in double
\* quotes when it holds whitespace and no double quote, then the fixed
\* variants, five entries at most
ExpectedSuggestions(q) ==
    LET quoted == /\ \E i \in 1 .. Len(q) : q[i] \in Whitespace
                  /\ \A i \in 1 .. Len(q) : q[i] # "\""
        all == <<q>>
               \o (IF quoted THEN << <<"\"">> \o q \o <<"\"">> >> ELSE <<>>)
               \o << q \o <<" ", "t", "u", "t", "o", "r", "i", "a", "l">>,
                      q \o <<" ", "g", "u", "i", "d", "e">>,
                      q \o <<" ", "2", "0", "2", "5">>,
                      <<"h", "o", "w", " ", "t", "o", " ">> \o q,
                      q \o <<" ", "b", "e", "s", "t", " ", "p", "r", "a",
                              "c", "t", "i", "c", "e", "s">> >>
    IN  SubSeq(all, 1, 5)

\* C27: when the reply holds a suggest_query_improvements tool call the
\* returned list is the caller's query, its quoted form when it holds
\* whitespace and no double quote, and the fixed variants in order, five
\* entries at most, all built from the caller's query whatever arguments
\* the model put in the call.
C27_SuggestionsBuiltFromCallersQuery ==
    (IsSuggestCall /\ ~PrimaryFailed
       /\ CallsOf("suggest_query_improvements") # {}) =>
        /\ invocation.kind = "returned"
        /\ invocation.suggestions = ExpectedSuggestions(invocation.query)

\* C28: one enhance_search_results invocation issues at most
\* 1 + 2 * min(len(results), 5) completion requests, whatever tool calls
\* the reply to the primary request holds.
C28_CompletionsBoundedByResults ==
    IsEnhanceCall =>
        invocation.completions <=
            1 + 2 * (IF Len(invocation.results) < 5
                     THEN Len(invocation.results) ELSE 5)

\* C29: the query field of the structure extract_search_intent returns is
\* the query the caller passed, on every path and whatever arguments the
\* model put in its tool call.
C29_IntentEchoesCallersQuery ==
    IsIntentCall =>
        /\ invocation.kind = "returned"
        /\ invocation.intent.query = invocation.query

====
